---------------------------- MODULE Spec2Model ----------------------------
(***************************************************************************)
(* Host-side controller for MKR-5 / DART fuel dispensers.                  *)
(*                                                                         *)
(* src/app/mekser/driver.py   DartDriver: frame construction, sequence     *)
(*                            bit, lock, transact                          *)
(* src/app/pumpmaster.py      PumpMaster: poll loop, frame parsing, DC     *)
(*                            dispatch, event queue                        *)
(* src/app/state.py           the pump state store                         *)
(*                                                                         *)
(* pumpmaster.py holds two revisions of PumpMaster side by side, the two   *)
(* sides of an unresolved merge (lines 48-101, 107-173 and 179-451).  The  *)
(* model carries both: rev = "HEAD" is the text between <<<<<<< HEAD and   *)
(* =======, rev = "THEIRS" the text between ======= and >>>>>>> c5b88ff;   *)
(* the lines outside the markers belong to both.  A name that one side     *)
(* uses and only the other side's history bound is read as the definition  *)
(* of that name in the repository: crc16 (line 239) is driver.crc16, and   *)
(* the start-up routine poll_loop awaits (line 175) is _initial on HEAD    *)
(* and _startup on THEIRS.                                                 *)
(*                                                                         *)
(* Bytes are the integers 0..255 and byte strings are sequences of them.   *)
(* volume_l and amount_cur are floats obtained by dividing a decoded       *)
(* integer by 1000 and by 100; the model keeps the integer (thousandths of *)
(* a litre, hundredths of the currency unit).                              *)
(***************************************************************************)
EXTENDS Integers, Sequences, FiniteSets, TLC

VARIABLES
    rev,        \* which side of the merge is the running PumpMaster
    \* ---- DartDriver (driver.py) ----
    seq,        \* self._seq
    lock,       \* self._lock: the worker holding it, or NoWorker
    wire,       \* the frames written to the serial line, in write order
    wpc,        \* wpc[w]: where worker thread w is inside transact
    wjob,       \* wjob[w]: the (addr, blocks) worker w was called with
    wframe,     \* wframe[w]: the frame worker w has built
    wtmp,       \* wtmp[w]: the value of self._seq loaded by "self._seq ^= 0x80"
    nCalls,     \* transact calls started by the workers so far
    calls,      \* the transact calls in the order they were issued: the job,
                \* the thread that runs it, what the host was answered
    serial,     \* self._ser: whether the port is open, and the number of
                \* frames on the line when it went away
    \* ---- PumpMaster (pumpmaster.py) and the store (state.py) ----
    pc,         \* position of the poll_loop task
    phase,      \* "initial" during start-up, "loop" in the while True loop
    adr,        \* the loop variable adr of poll_loop
    raw,        \* the bytes the last transact of the poll loop returned
    pending,    \* the transactions of the frame being parsed, not yet handled
    store,      \* state.store: addr -> PumpState, for the keys present
    grade_table,\* self.grade_table: addr -> (nozzle id -> grade)
    events,     \* self.events (asyncio.Queue)
    delivered,  \* the events _forward_events took from the queue, in order
    decoded,    \* the transactions _parse handed to _handle_dc, in order
    last,       \* the last _handle_dc call: its transaction, the PumpState
                \* before it, the events it put, whether it raised
    nTx,        \* transact calls of the poll loop so far
    params,     \* params[a]: what hw.cd1 returned for the start-up query to a
    \* ---- framing round trip ----
    fin,        \* the input of _build_frame under test
    fout,       \* what _parse dispatched for the frame built from fin
    \* ---- the read loop of one transact call ----
    rframe,     \* frame: the frame the call wrote
    rline,      \* the bytes that will still arrive on the serial line
    rbuf,       \* buf
    recho,      \* echo_detected
    rgot,       \* all the bytes the reads of the loop returned, in order
    rchunks,    \* the number of reads that returned bytes
    rret,       \* what transact returned
    \* ---- packed BCD round trip ----
    bin,        \* the value and the width handed to the encoder
    bout,       \* the bytes the encoder made and the value decoded from them
    \* ---- the websocket subscribers (api.py) ----
    ws          \* the events put so far and the state of each subscriber

transportVars == <<seq, lock, wire, wpc, wjob, wframe, wtmp, nCalls, calls, serial>>
masterVars    == <<pc, phase, adr, raw, pending, store, grade_table, events,
                   delivered, decoded, last, nTx, params>>
frameVars     == <<fin, fout>>
readVars      == <<rframe, rline, rbuf, recho, rgot, rchunks, rret>>
bcdVars       == <<bin, bout>>
wsVars        == <<ws>>
vars          == <<rev, transportVars, masterVars, frameVars, readVars, bcdVars, wsVars>>

Revs == {"HEAD", "THEIRS"}

-----------------------------------------------------------------------------
(* Bytes *)

STX == 2
ETX == 3
SF  == 250
CTRL == 240
SEQ_TOGGLE == 128

CRC_POLY == 4129
CRC_INIT == 0

Byte == 0 .. 255

RECURSIVE BitXor(_, _)
BitXor(a, b) ==
    IF a = 0 THEN b
    ELSE IF b = 0 THEN a
    ELSE 2 * BitXor(a \div 2, b \div 2) + ((a + b) % 2)

RECURSIVE BitAnd(_, _)
BitAnd(a, b) ==
    IF a = 0 \/ b = 0 THEN 0
    ELSE 2 * BitAnd(a \div 2, b \div 2) + ((a % 2) * (b % 2))

\* s[i:j] of Python, 0-based, clamped to the string
Slice(s, i, j) ==
    LET lo == IF i < Len(s) THEN i ELSE Len(s)
        hi == IF j < Len(s) THEN j ELSE Len(s)
    IN  IF hi <= lo THEN << >> ELSE SubSeq(s, lo + 1, hi)

RECURSIVE Concat(_)
Concat(ss) == IF ss = << >> THEN << >> ELSE Head(ss) \o Concat(Tail(ss))

\* n turns of the inner loop "for _ in range(8)"
RECURSIVE CrcShifts(_, _)
CrcShifts(crc, n) ==
    IF n = 0 THEN crc
    ELSE IF crc >= 32768
        THEN CrcShifts(BitXor((crc * 2) % 65536, CRC_POLY), n - 1)
        ELSE CrcShifts((crc * 2) % 65536, n - 1)

\* the body of "for b in buf": crc ^= b << 8, then the eight shifts
CrcByte(crc, b) == CrcShifts(BitXor(crc, b * 256), 8)

\* the register after the loop "for b in data", entered with crc; the
\* register is a 16-bit value throughout
RECURSIVE CrcFrom(_, _)
CrcFrom(crc, data) ==
    IF data = << >> \/ crc > 65535 THEN crc
    ELSE CrcFrom(CrcByte(crc, Head(data)), Tail(data))

crc16(data) == CrcFrom(CRC_INIT, data) % 65536

crc16_mkr(buf) == CrcFrom(0, buf)

\* int.from_bytes(b, "little") of a two-byte string
FromLittle2(b) == b[1] + 256 * b[2]

\* crc.to_bytes(2, "little")
ToLittle2(n) == << n % 256, n \div 256 >>

\* _bcd_to_int: every nibble is taken as a digit, whatever its value
RECURSIVE BcdFrom(_, _)
BcdFrom(v, b) ==
    IF b = << >> THEN v
    ELSE BcdFrom(v * 100 + ((Head(b) \div 16) % 16) * 10 + (Head(b) % 16), Tail(b))

bcd_to_int(b) == BcdFrom(0, b)

\* _bcd_to_float: a nibble above 9 makes the whole field 0
BcdValid(b) == \A i \in 1 .. Len(b) : (b[i] \div 16) % 16 <= 9 /\ b[i] % 16 <= 9

bcd_to_float(b) == IF BcdValid(b) THEN BcdFrom(0, b) ELSE 0


-----------------------------------------------------------------------------
(* Framing: DartDriver._build_frame and the two PumpMaster._parse *)

\* a frame whose CRC is stored high byte first
build_frame_crc_big(addr, s, blocks) ==
    LET body == Concat(blocks)
        hdr  == << addr, CTRL, s, Len(body) >> \o body
        crc  == crc16(hdr)
    IN  << STX >> \o hdr \o << crc \div 256, crc % 256 >> \o << ETX, SF >>

\* the frame DartDriver._build_frame returns when self._seq is s
build_frame(addr, s, blocks) ==
    LET body == Concat(blocks)
        hdr  == << addr, CTRL, s, Len(body) >> \o body
    IN  << STX >> \o hdr \o ToLittle2(crc16(hdr)) \o << ETX, SF >>

\* the loop "while len(body) >= 2" of _parse: the (addr, dc, payload) it
\* hands to _handle_dc, in order
RECURSIVE Transactions(_, _)
Transactions(addr, body) ==
    IF Len(body) < 2 THEN << >>
    ELSE LET dc == body[1]
             ln == body[2]
         IN  IF Len(body) < 2 + ln THEN << >>
             ELSE << [addr |-> addr, dc |-> dc, pl |-> Slice(body, 2, 2 + ln)] >>
                  \o Transactions(addr, Slice(body, 2 + ln, Len(body)))

EndsWith(s, t) == Len(s) >= Len(t) /\ SubSeq(s, Len(s) - Len(t) + 1, Len(s)) = t

\* _parse of HEAD: the whole reply is one frame
ParseHead(fr0) ==
    IF Len(fr0) = 6 /\ EndsWith(fr0, << ETX, SF >>) THEN << >>
    ELSE LET fr == IF fr0 # << >> /\ fr0[1] # STX THEN << STX >> \o fr0 ELSE fr0
         IN  IF Len(fr) < 8 THEN << >>
             ELSE IF fr[Len(fr)] # SF THEN << >>
             ELSE IF crc16(Slice(fr, 1, Len(fr) - 4))
                        # FromLittle2(Slice(fr, Len(fr) - 4, Len(fr) - 2)) THEN << >>
             ELSE Transactions(fr[2], Slice(fr, 5, 5 + fr[5]))

\* buf.split(b"\x02"): the pieces between the 0x02 bytes of buf, in order
Split(buf) ==
    LET starts == {0} \cup {i \in 1 .. Len(buf) : buf[i] = STX}
        nth(k) == CHOOSE s \in starts : Cardinality({t \in starts : t < s}) = k - 1
        stop(s) == IF \E t \in starts : t > s
                      THEN (CHOOSE t \in starts : t > s /\ \A u \in starts : u > s => t <= u) - 1
                      ELSE Len(buf)
    IN  [k \in 1 .. Cardinality(starts) |-> Slice(buf, nth(k), stop(nth(k)))]

\* the body of the loop "for chunk in buf.split(...)" of THEIRS
ParseChunk(chunk) ==
    IF chunk = << >> THEN << >>
    ELSE LET fr == << STX >> \o chunk
         IN  IF Len(fr) < 8 \/ fr[Len(fr)] # SF THEN << >>
             ELSE IF crc16_mkr(Slice(fr, 1, Len(fr) - 4))
                        # FromLittle2(Slice(fr, Len(fr) - 4, Len(fr) - 2)) THEN << >>
             ELSE Transactions(fr[2], Slice(fr, 5, 5 + fr[5]))

RECURSIVE ParseChunks(_)
ParseChunks(chunks) ==
    IF chunks = << >> THEN << >>
    ELSE ParseChunk(Head(chunks)) \o ParseChunks(Tail(chunks))

\* _parse of THEIRS
ParseTheirs(buf) == ParseChunks(Split(buf))

\* the transactions _parse hands to _handle_dc for the bytes buf
Parse(r, buf) == IF r = "HEAD" THEN ParseHead(buf) ELSE ParseTheirs(buf)


-----------------------------------------------------------------------------
(* The calls PumpMaster makes on the driver *)

\* None is << >>, a value v is << v >>
None == << >>
Some(v) == << v >>

\* DartDriver.cd1: transact(0x50 + pump_id, [CD1, 0x01, dcc])
cd1(pump_id, dcc) == [addr |-> 80 + pump_id, blocks |-> << << 1, 1, dcc >> >>]

\* _int_to_bcd: from the last byte to the first, the tens digit of the
\* remaining value goes to the low nibble and the units digit to the high one
int_to_bcd(val, nbytes) ==
    [i \in 1 .. nbytes |->
        LET q == val \div (100 ^ (nbytes - i))
        IN  ((q \div 10) % 10) + (q % 10) * 16]

\* _float_to_bcd, applied to a value without fraction
float_to_bcd(v, n) ==
    [i \in 1 .. n |->
        LET q == v \div (100 ^ (n - i))
        IN  ((q \div 10) % 10) * 16 + (q % 10)]

\* int.to_bytes(4, "big")
ToBig4(v) == [i \in 1 .. 4 |-> (v \div (256 ^ (4 - i))) % 256]

\* the blocks PumpMaster.authorize builds; vol is vol * 1000 and amt is
\* amt * 100, each None or a value
authorize(r, addr, vol, amt) ==
    LET enc(v) == IF r = "HEAD" THEN float_to_bcd(v, 4) ELSE ToBig4(v)
        b3 == IF vol = None THEN << >> ELSE << << 3, 4 >> \o enc(vol[1]) >>
        b4 == IF amt = None THEN << >> ELSE << << 4, 4 >> \o enc(amt[1]) >>
        go == IF r = "HEAD" THEN << 1, 1, 6 >> ELSE << 1, 1, 1 >>
    IN  [addr |-> addr, blocks |-> b3 \o b4 \o << go >>]

-----------------------------------------------------------------------------
(* DartDriver.transact, run by worker threads of the executor *)

NWorkers == 2
MaxCalls == 2

NoWorker == 0
Workers == 1 .. NWorkers

\* the arguments of the authorize calls: 20 litres; 20 litres and 10.50
AuthArgs == { << Some(20000), None >>, << Some(20000), Some(1050) >> }

\* the transact calls the workers are given: the status poll and the
\* authorize calls
Jobs(r) == { cd1(0, 0) } \cup { authorize(r, 80, x[1], x[2]) : x \in AuthArgs }

NoJob == [addr |-> 0, blocks |-> << >>]

\* serial.Serial(...) of __init__: the port is open
SerialOpen == [open |-> TRUE, frames |-> 0]

\* one transact call: its arguments, the thread it runs on (the event loop
\* thread or a thread of the executor) and what the host that asked for it
\* was answered, if a host asked
CallRec(job, th, resp) == [job |-> job, thread |-> th, resp |-> resp]

TransportInit ==
    /\ seq = 0
    /\ lock = NoWorker
    /\ wire = << >>
    /\ wpc = [w \in Workers |-> "idle"]
    /\ wjob = [w \in Workers |-> NoJob]
    /\ wframe = [w \in Workers |-> << >>]
    /\ wtmp = [w \in Workers |-> 0]
    /\ nCalls = 0
    /\ calls = << >>
    /\ serial = SerialOpen

\* run_in_executor(None, hw.transact, ...): a worker thread enters transact
Call(w, job) ==
    /\ wpc[w] = "idle"
    /\ nCalls < MaxCalls
    /\ wjob' = [wjob EXCEPT ![w] = job]
    /\ wpc' = [wpc EXCEPT ![w] = "hdr"]
    /\ nCalls' = nCalls + 1
    /\ calls' = Append(calls, CallRec(job, "executor", "none"))
    /\ UNCHANGED <<seq, lock, wire, wframe, wtmp, serial, rev, masterVars, frameVars, readVars, bcdVars, wsVars>>

\* _build_frame, line 150: the header takes the current self._seq
BuildHdr(w) ==
    /\ wpc[w] = "hdr"
    /\ wframe' = [wframe EXCEPT ![w] = build_frame(wjob[w].addr, seq, wjob[w].blocks)]
    /\ wpc' = [wpc EXCEPT ![w] = "load"]
    /\ UNCHANGED <<seq, lock, wire, wjob, wtmp, nCalls, calls, serial, rev, masterVars, frameVars, readVars, bcdVars, wsVars>>

\* _build_frame, line 151: "self._seq ^= 0x80" loads self._seq ...
LoadSeq(w) ==
    /\ wpc[w] = "load"
    /\ wtmp' = [wtmp EXCEPT ![w] = seq]
    /\ wpc' = [wpc EXCEPT ![w] = "store"]
    /\ UNCHANGED <<seq, lock, wire, wjob, wframe, nCalls, calls, serial, rev, masterVars, frameVars, readVars, bcdVars, wsVars>>

\* ... and stores the toggled value
StoreSeq(w) ==
    /\ wpc[w] = "store"
    /\ seq' = BitXor(wtmp[w], SEQ_TOGGLE)
    /\ wpc' = [wpc EXCEPT ![w] = "lock"]
    /\ UNCHANGED <<lock, wire, wjob, wframe, wtmp, nCalls, calls, serial, rev, masterVars, frameVars, readVars, bcdVars, wsVars>>

\* a "with self._lock:" that lets every caller in
CanAcquireUnlocked(w) == TRUE

\* "with self._lock:" can be entered
CanAcquire(w) == lock = NoWorker

Acquire(w) ==
    /\ wpc[w] = "lock"
    /\ CanAcquire(w)
    /\ lock' = w
    /\ wpc' = [wpc EXCEPT ![w] = "write"]
    /\ UNCHANGED <<seq, wire, wjob, wframe, wtmp, nCalls, calls, serial, rev, masterVars, frameVars, readVars, bcdVars, wsVars>>

\* reset_input_buffer, write(frame), flush
Write(w) ==
    /\ wpc[w] = "write"
    /\ wire' = Append(wire, wframe[w])
    /\ wpc' = [wpc EXCEPT ![w] = "read"]
    /\ UNCHANGED <<seq, lock, wjob, wframe, wtmp, nCalls, calls, serial, rev, masterVars, frameVars, readVars, bcdVars, wsVars>>

\* the read loop ends (reply and gap, or timeout); return leaves the with block
Return(w) ==
    /\ wpc[w] = "read"
    /\ lock' = NoWorker
    /\ wpc' = [wpc EXCEPT ![w] = "idle"]
    /\ UNCHANGED <<seq, wire, wjob, wframe, wtmp, nCalls, calls, serial, rev, masterVars, frameVars, readVars, bcdVars, wsVars>>


-----------------------------------------------------------------------------
(* The store (state.py) and PumpMaster._handle_dc *)

\* PumpMaster(): first = last = 0x50
First == 80
Last  == 80
Addrs == First .. Last

\* the values of the enum PumpStatus
PumpStatusValues == {0, 1, 2, 3, 4, 5, 6, 7}
AUTHORIZED == 2

\* the map f with key k set to v (f[k] = v of a dict)
Put(f, k, v) == [x \in (DOMAIN f) \cup {k} |-> IF x = k THEN v ELSE f[x]]

SideState0 ==
    [status |-> 0, volume_l |-> 0, amount_cur |-> 0,
     preset_vol |-> None, preset_amt |-> None,
     nozzle_taken |-> FALSE, nozzles |-> << >>, selected_nozzle |-> None]

PumpState0 == [left |-> SideState0, right |-> SideState0, all_nozzles |-> << >>]

\* store[a] of the defaultdict: a missing key is created with PumpState()
WithKey(st, a) == IF a \in DOMAIN st THEN st ELSE Put(st, a, PumpState0)

SIDE_BY_NOZ == [n \in {1, 2, 3, 4} |-> IF n \in {1, 3} THEN "left" ELSE "right"]

\* SIDE_BY_NOZ.get(noz_id, "left")
SideByNoz(n) == IF n \in DOMAIN SIDE_BY_NOZ THEN SIDE_BY_NOZ[n] ELSE "left"

\* self.grade_table.get(addr, {}).get(noz_id)
GradeOf(gt, a, n) ==
    IF a \in DOMAIN gt /\ n \in DOMAIN gt[a] THEN Some(gt[a][n]) ELSE None

\* what one _handle_dc call leaves: the store, the grade table, the events
\* it put on the queue, and whether it raised
Handled(st, gt, evs, raised) ==
    [store |-> st, grade_table |-> gt, evs |-> evs, raised |-> raised]

\* _handle_dc of THEIRS (lines 404-450)
HandleDcTheirs(st, gt, t) ==
    LET a   == t.addr
        pl  == t.pl
        st1 == WithKey(st, a)
    IN  IF t.dc = 7 /\ Len(pl) >= 46 THEN
            Handled(st1, Put(gt, a, [i \in 1 .. 15 |-> pl[30 + i]]), << >>, FALSE)
        ELSE IF t.dc = 3 /\ Len(pl) >= 4 THEN
            LET noz_id == pl[4] % 16
            IN  Handled(st1, gt,
                    << [addr |-> a, nozzle_id |-> noz_id, side |-> SideByNoz(noz_id),
                        grade |-> GradeOf(gt, a, noz_id),
                        price_cur |-> bcd_to_int(Slice(pl, 0, 3)),
                        nozzle_taken |-> (pl[4] \div 16) % 2 = 1] >>, FALSE)
        ELSE IF t.dc = 2 /\ Len(pl) >= 9 THEN
            Handled(st1, gt,
                << [addr |-> a, side |-> IF pl[1] % 2 = 1 THEN "right" ELSE "left",
                    volume_l |-> bcd_to_int(Slice(pl, 1, 5)),
                    amount_cur |-> bcd_to_int(Slice(pl, 5, 9))] >>, FALSE)
        ELSE IF t.dc = 1 /\ pl # << >> THEN
            IF pl[1] \in PumpStatusValues THEN
                Handled([st1 EXCEPT ![a].left.status = pl[1], ![a].right.status = pl[1]],
                        gt, << [addr |-> a, status |-> pl[1]] >>, FALSE)
            ELSE Handled(st1, gt, << >>, TRUE)
        ELSE Handled(st1, gt, << >>, FALSE)

\* the loop over grade_data of the DC7 branch of HEAD (lines 344-352)
RECURSIVE KnownNozzles(_, _, _)
KnownNozzles(all, grades, n) ==
    IF n > Len(grades) THEN all
    ELSE IF grades[n] > 0 /\ n \notin DOMAIN all
        THEN KnownNozzles(Put(all, n, [number |-> n, taken |-> FALSE,
                                       selected |-> FALSE, price |-> 0]),
                          grades, n + 1)
        ELSE KnownNozzles(all, grades, n + 1)

\* _handle_dc of HEAD (lines 260-355)
HandleDcHead(st, gt, t) ==
    LET a   == t.addr
        pl  == t.pl
        st1 == WithKey(st, a)
    IN  IF t.dc = 1 THEN
            LET code == IF pl # << >> THEN pl[1] ELSE 0
                stat == IF code \in PumpStatusValues THEN code ELSE 0
            IN  Handled([st1 EXCEPT ![a].left.status = stat], gt,
                        << [addr |-> a, side |-> "left", status |-> code] >>, FALSE)
        ELSE IF t.dc = 2 /\ Len(pl) >= 8 THEN
            LET vol == bcd_to_float(Slice(pl, 0, 4))
                amt == bcd_to_float(Slice(pl, 4, 8))
            IN  Handled([st1 EXCEPT ![a].left.volume_l = vol, ![a].left.amount_cur = amt],
                        gt,
                        << [addr |-> a, side |-> "left",
                            volume_l |-> vol, amount_cur |-> amt] >>, FALSE)
        ELSE IF t.dc = 3 /\ Len(pl) >= 4 THEN
            LET num   == pl[4] % 16
                out   == (pl[4] \div 16) % 2 = 1
                price == bcd_to_float(Slice(pl, 0, 3))
                noz   == [number |-> num, taken |-> out,
                          selected |-> num > 0, price |-> price]
                st2   == [st1 EXCEPT ![a].all_nozzles = Put(@, num, noz),
                                     ![a].left.nozzle_taken = out]
                st3   == IF num > 0
                            THEN [st2 EXCEPT ![a].left.selected_nozzle = Some(num),
                                             ![a].left.nozzles = Put(@, num, noz)]
                            ELSE st2
            IN  Handled(st3, gt,
                        << [addr |-> a, side |-> "left", nozzle_taken |-> out,
                            nozzle_num |-> num, nozzle_price |-> price,
                            nozzle_selected |-> num > 0] >>, FALSE)
        ELSE IF t.dc = 7 /\ Len(pl) >= 50 THEN
            Handled([st1 EXCEPT ![a].all_nozzles = KnownNozzles(@, Slice(pl, 35, 50), 1)],
                    gt, << >>, FALSE)
        ELSE Handled(st1, gt, << >>, FALSE)

HandleDc(r, st, gt, t) ==
    IF r = "HEAD" THEN HandleDcHead(st, gt, t) ELSE HandleDcTheirs(st, gt, t)


-----------------------------------------------------------------------------
(* What the pumps put on the line *)

\* a frame as a pump sends it: the layout of _build_frame
PumpFrame(a, body) == build_frame(a, 0, << body >>)

\* the frame fr with its last CRC byte changed
BadCrc(fr) == [fr EXCEPT ![Len(fr) - 2] = (@ + 1) % 256]

DC1(code) == << 1, 1, code >>
\* DC2, documented layout: volume 1.234 / 0.500 l, amount 5.67 / 1.00
DC2a == << 2, 8, 0, 0, 18, 52, 0, 0, 5, 103 >>
DC2b == << 2, 8, 0, 0, 5, 0, 0, 0, 1, 0 >>
\* DC2 with a leading side byte (right side)
DC2s == << 2, 9, 1, 0, 0, 18, 52, 0, 0, 5, 103 >>
\* DC3: price 12 34 56, NOZIO = taken | nozzle id
DC3(noz) == << 3, 4, 18, 52, 86, 16 + noz >>
\* DC7 with 46 payload bytes: GRADE of nozzle 1 is 1, of nozzle 3 is 3
DC7 == << 7, 46 >> \o [i \in 1 .. 46 |-> IF i = 31 THEN 1 ELSE IF i = 33 THEN 3 ELSE 0]

ReplyBodies ==
    { DC1(c) : c \in {1, 2, 4, 5, 9} }
        \cup { DC2a, DC2b, DC2s, DC3(1), DC3(2), DC3(6), DC7,
               DC1(4) \o DC2a, DC1(9) \o DC1(4) }

\* the bytes one transact of the poll loop may return: silence, a frame of
\* the polled pump, a frame of another pump, a frame with a bad CRC
\* the frame fr with c as its CRC field
WithCrc(fr, c) ==
    [i \in 1 .. Len(fr) |->
        IF i = Len(fr) - 3 THEN c % 256
        ELSE IF i = Len(fr) - 2 THEN c \div 256 ELSE fr[i]]

\* a frame with a wrong CRC field whose body holds, as the payload of a
\* transaction 0x09, the bytes of a DC1 FILLING frame; its CRC field is the
\* CRC of the bytes that follow the inner STX
InnerFrame == PumpFrame(80, DC1(4))
NestedBadCrc ==
    WithCrc(PumpFrame(80, << 9, Len(InnerFrame) >> \o InnerFrame),
            crc16_mkr(Tail(InnerFrame)))

\* two frames of one pump that one read returns together: a DC3 frame with
\* a DC1 AUTHORIZED frame, a DC3 frame with a DC1 FILLING frame
FramePairs == { << DC3(1), DC1(2) >>, << DC3(1), DC1(4) >> }

TwoFrames(p) == PumpFrame(80, p[1]) \o PumpFrame(80, p[2])

\* bodies with a transaction 0x09, which no branch of _handle_dc knows: one
\* with a 1-byte payload, a DC1 FILLING after it and the first three bytes of
\* a DC3 at the end; one with a 2-byte payload and a DC1 FILLING after it
UnknownBodies == { << 9, 1, 0 >> \o DC1(4) \o << 3, 4, 18 >>,
                   << 9, 2, 0, 0 >> \o DC1(4) }

\* a DC1 without payload followed by a DC1 FILLING
ShortBody == << 1, 0 >> \o DC1(4)

\* a DC1 FILLING frame that arrives without its STX
NoStx == Tail(PumpFrame(80, DC1(4)))

\* a frame with a correct CRC whose LEN byte is 3 while six body bytes
\* follow it: a DC1 FILLING and a DC1 FILLING_COMPLETED transaction
WrongLen ==
    LET hdr == << 80, CTRL, 0, 3 >> \o DC1(4) \o DC1(5)
    IN  << STX >> \o hdr \o ToLittle2(crc16(hdr)) \o << ETX, SF >>

\* a DC1 FILLING frame with a correct CRC and 0x00 where ETX belongs
NoEtx == [PumpFrame(80, DC1(4)) EXCEPT ![Len(PumpFrame(80, DC1(4))) - 1] = 0]

Replies ==
    { << >> }
        \cup { PumpFrame(80, b) : b \in ReplyBodies }
        \cup { TwoFrames(p) : p \in FramePairs }
        \cup { PumpFrame(81, DC1(4)), BadCrc(PumpFrame(80, DC1(4))), NestedBadCrc }
        \cup { NoStx, WrongLen, NoEtx }
        \cup { PumpFrame(80, b) : b \in UnknownBodies \cup {ShortBody} }

-----------------------------------------------------------------------------
(* PumpMaster.poll_loop and the event forwarder *)

MaxTx == 2

NoLast == << >>

MasterInit ==
    /\ pc = IF rev = "HEAD" THEN "poll" ELSE "startup"
    /\ phase = "initial"
    /\ adr = First
    /\ raw = << >>
    /\ pending = << >>
    /\ store = << >>
    /\ grade_table = << >>
    /\ events = << >>
    /\ delivered = << >>
    /\ decoded = << >>
    /\ last = NoLast
    /\ nTx = 0
    /\ params = [a \in Addrs |-> << >>]

\* hw.transact seen from the poll loop, which waits for it: the frame is
\* built with the current sequence byte, the byte is toggled, the frame is
\* written
Transact(call, th) ==
    /\ serial.open
    /\ calls' = Append(calls, CallRec(call, th, "none"))
    /\ wire' = Append(wire, build_frame(call.addr, seq, call.blocks))
    /\ seq' = BitXor(seq, SEQ_TOGGLE)
    /\ UNCHANGED <<lock, wpc, wjob, wframe, wtmp, nCalls, serial>>

\* two transact calls one after the other
Transact2(c1, c2, th) ==
    /\ serial.open
    /\ calls' = calls \o << CallRec(c1, th, "none"), CallRec(c2, th, "none") >>
    /\ wire' = wire \o << build_frame(c1.addr, seq, c1.blocks),
                          build_frame(c2.addr, BitXor(seq, SEQ_TOGGLE), c2.blocks) >>
    /\ seq' = seq
    /\ UNCHANGED <<lock, wpc, wjob, wframe, wtmp, nCalls, serial>>

\* the loop variable after the current address: the next address, and on
\* the last address of the start-up pass the first pass of "while True"
Advance ==
    IF adr < Last
        THEN adr' = adr + 1 /\ phase' = phase
        ELSE adr' = First /\ phase' = "loop"

\* _startup of THEIRS, first half: _init_price(adr), a CD5 price update of
\* 45.00 for four nozzles and a CD1 RESET; the replies are dropped
StartupPrice ==
    /\ rev = "THEIRS"
    /\ pc = "startup"
    /\ Transact2([addr |-> adr,
                  blocks |-> << << 5, 12 >> \o Concat([i \in 1 .. 4 |-> int_to_bcd(4500, 3)]) >>],
                 cd1(adr - 80, 5), "loop")
    /\ pc' = "params"
    /\ UNCHANGED <<rev, phase, adr, raw, pending, store, grade_table, events,
                   delivered, decoded, last, nTx, params, frameVars, readVars, bcdVars, wsVars>>

\* what the pump at a may answer to the query of the start-up: nothing, or
\* a DC7 frame
StartupReplies(a) == { << >>, PumpFrame(a, DC7) }

\* _startup of THEIRS, second half: hw.cd1(adr - 0x50, 0x06); the bytes it
\* returns are not bound to a name and _parse is not called on them
StartupParams ==
    /\ rev = "THEIRS"
    /\ pc = "params"
    /\ Transact(cd1(adr - 80, 6), "loop")
    /\ \E reply \in StartupReplies(adr) : params' = [params EXCEPT ![adr] = reply]
    /\ Advance
    /\ pc' = IF adr < Last THEN "startup" ELSE "poll"
    /\ UNCHANGED <<rev, raw, pending, store, grade_table, events,
                   delivered, decoded, last, nTx, frameVars, readVars, bcdVars, wsVars>>

\* raw = hw.cd1(adr - 0x50, 0x00): the status poll, answered by one of Replies
PollStatus ==
    /\ pc = "poll"
    /\ nTx < MaxTx
    /\ Transact(cd1(adr - 80, 0), "executor")
    /\ nTx' = nTx + 1
    /\ \E reply \in Replies :
          /\ raw' = reply
          /\ IF reply # << >>
                THEN pc' = "parse" /\ UNCHANGED <<adr, phase>>
                ELSE IF rev = "HEAD"
                    THEN pc' = "identity" /\ UNCHANGED <<adr, phase>>
                    ELSE pc' = "poll" /\ Advance
    /\ UNCHANGED <<rev, pending, store, grade_table, events,
                   delivered, decoded, last, params, frameVars, readVars, bcdVars, wsVars>>

\* _poll_one of HEAD after a silent poll: hw.cd1(adr - 0x50, 0x03)
PollIdentity ==
    /\ rev = "HEAD"
    /\ pc = "identity"
    /\ nTx < MaxTx
    /\ Transact(cd1(adr - 80, 3), "executor")
    /\ nTx' = nTx + 1
    /\ \E reply \in Replies :
          /\ raw' = reply
          /\ IF reply # << >>
                THEN pc' = "parse" /\ UNCHANGED <<adr, phase>>
                ELSE pc' = "poll" /\ Advance
    /\ UNCHANGED <<rev, pending, store, grade_table, events,
                   delivered, decoded, last, params, frameVars, readVars, bcdVars, wsVars>>

\* _parse(raw) up to its first _handle_dc call
ParseReply ==
    /\ pc = "parse"
    /\ pending' = Parse(rev, raw)
    /\ IF pending' # << >>
          THEN pc' = "dispatch" /\ UNCHANGED <<adr, phase>>
          ELSE pc' = "poll" /\ Advance
    /\ UNCHANGED <<rev, transportVars, raw, store, grade_table, events,
                   delivered, decoded, last, nTx, params, frameVars, readVars, bcdVars, wsVars>>

\* asyncio.Queue(): maxsize is 0 and the queue has no bound
maxsize == 0

\* a queue that is full as soon as it holds one event
FullAtOne(q) == Len(q) >= 1

\* Queue.full(): "await self.events.put(ev)" waits while it is true
Full(q) == maxsize > 0 /\ Len(q) >= maxsize

\* self.events.put(ev) for each event of evs: the queue is unbounded
PutAll(q, evs) == q \o evs

\* one _handle_dc call of _parse.  An exception ends the poll_loop task on
\* THEIRS; on HEAD _poll_one catches it and the loop goes on.  _parse runs
\* without suspending, so nothing else runs between two such calls.
Dispatch ==
    /\ pc = "dispatch"
    /\ LET t == Head(pending)
           h == HandleDc(rev, store, grade_table, t)
       IN  /\ h.evs # << >> => ~Full(events)
           /\ store' = h.store
           /\ grade_table' = h.grade_table
           /\ events' = PutAll(events, h.evs)
           /\ decoded' = Append(decoded, t)
           /\ last' = << [t |-> t,
                          pre |-> WithKey(store, t.addr)[t.addr],
                          evs |-> h.evs,
                          raised |-> h.raised] >>
           /\ IF h.raised
                 THEN /\ pending' = << >>
                      /\ IF rev = "HEAD"
                            THEN pc' = "poll" /\ Advance
                            ELSE pc' = "dead" /\ UNCHANGED <<adr, phase>>
                 ELSE /\ pending' = Tail(pending)
                      /\ IF Tail(pending) = << >>
                            THEN pc' = "poll" /\ Advance
                            ELSE pc' = "dispatch" /\ UNCHANGED <<adr, phase>>
    /\ UNCHANGED <<rev, transportVars, raw, delivered, nTx, params, frameVars, readVars, bcdVars, wsVars>>

\* _forward_events: ev = await master.events.get(); ws.send_json(ev)
Forward ==
    /\ pc # "dispatch"
    /\ events # << >>
    /\ delivered' = Append(delivered, Head(events))
    /\ events' = Tail(events)
    /\ UNCHANGED <<rev, transportVars, pc, phase, adr, raw, pending, store,
                   grade_table, decoded, last, nTx, params, frameVars, readVars, bcdVars, wsVars>>

\* the addresses the API asks about: one that no pump answers from
QueryAddrs == {82}

\* get_all_nozzles(a) of HEAD, called by GET /pumps/{addr}/nozzles while the
\* poll loop is suspended: pump_state = store[addr] on the defaultdict
GetAllNozzles(a) ==
    /\ rev = "HEAD"
    /\ pc \notin {"parse", "dispatch"}
    /\ a \notin DOMAIN store
    /\ store' = WithKey(store, a)
    /\ UNCHANGED <<rev, transportVars, pc, phase, adr, raw, pending, grade_table,
                   events, delivered, decoded, last, nTx, params, frameVars, readVars, bcdVars, wsVars>>

-----------------------------------------------------------------------------
(* Framing round trip: _build_frame followed by _parse *)

FrameAddrs == {80, 90, 111}
FrameSeqs  == {0, 128}

\* lists of blocks: none, the CD1 commands 0x00, 0x02, 0x03, a preset with
\* AUTHORIZE, a body holding 0xFA, a body of two bytes (LEN = 0x02), a body
\* whose frame to 0x50 has 0x02 as CRC low byte
FrameBlocks ==
    { << >>,
      << << 1, 1, 0 >> >>,
      << << 1, 1, 2 >> >>,
      << << 1, 1, 3 >> >>,
      << << 3, 4, 0, 0, 78, 32 >>, << 1, 1, 6 >> >>,
      << << 5, 3, 0, 250, 0 >> >>,
      << << 14, 0 >> >>,
      << << 1, 1, 8 >> >>,
      << << 1, 1, 10 >> >> }

NoInput == [addr |-> 0, seq |-> 0, blocks |-> << >>]
NoOutput == [done |-> FALSE, txs |-> << >>]

FrameIdle == fin = NoInput /\ fout = NoOutput

FrameInit ==
    /\ fin \in [addr : FrameAddrs, seq : FrameSeqs, blocks : FrameBlocks]
    /\ fout = NoOutput

\* the frame _build_frame makes of fin, given to _parse
RoundTrip ==
    /\ fout = NoOutput
    /\ fout' = [done |-> TRUE,
                 txs |-> Parse(rev, build_frame(fin.addr, fin.seq, fin.blocks))]
    /\ UNCHANGED <<rev, transportVars, masterVars, fin, readVars, bcdVars, wsVars>>

-----------------------------------------------------------------------------
(* The read loop of DartDriver.transact *)

\* the frames the call under test wrote: a status poll, a preset with AUTHORIZE
ReadFrames ==
    { build_frame(c.addr, sq, c.blocks) :
        c \in { cd1(0, 0), authorize("THEIRS", 80, Some(20000), None) },
        sq \in {0, 128} }

\* what the serial line delivers after the write of frame fr: nothing, the
\* echo alone, the echo and a reply, a reply without echo, the echo twice,
\* the echo twice and a reply, a cut echo and a reply
LinesAfter(fr) ==
    LET reply == PumpFrame(80, DC1(4))
    IN  { << >>, fr, fr \o reply, reply, fr \o fr, fr \o fr \o reply,
          SubSeq(fr, 1, 5) \o reply }

NoReturn == [done |-> FALSE, bytes |-> << >>]

ReadIdle ==
    /\ rframe = << >>
    /\ rline = << >>
    /\ rbuf = << >>
    /\ recho = FALSE
    /\ rgot = << >>
    /\ rchunks = 0
    /\ rret = NoReturn

\* the state at "while time.time() - start < timeout:"
ReadInit ==
    /\ rframe \in ReadFrames
    /\ rline \in LinesAfter(rframe)
    /\ rbuf = << >>
    /\ recho = FALSE
    /\ rgot = << >>
    /\ rchunks = 0
    /\ rret = NoReturn

\* an echo test that never finds the echo
IsEchoNever(b, fr, detected) == FALSE

\* "if not echo_detected and len(buf) >= len(frame): if buf[:len(frame)] == frame"
IsEcho(b, fr, detected) ==
    /\ ~detected
    /\ Len(b) >= Len(fr)
    /\ SubSeq(b, 1, Len(fr)) = fr

\* chunk = self._ser.read(self._ser.in_waiting or 1) returns the next n bytes
ReadChunk(n) ==
    /\ ~rret.done
    /\ n \in 1 .. Len(rline)
    /\ LET chunk == SubSeq(rline, 1, n)
           b     == rbuf \o chunk
       IN  /\ rline' = SubSeq(rline, n + 1, Len(rline))
           /\ rgot' = rgot \o chunk
           /\ rchunks' = rchunks + 1
           /\ IF IsEcho(b, rframe, recho)
                 THEN /\ rbuf' = SubSeq(b, Len(rframe) + 1, Len(b))
                      /\ recho' = TRUE
                 ELSE /\ rbuf' = b
                      /\ recho' = recho
    /\ UNCHANGED <<rev, transportVars, masterVars, frameVars, rframe, rret, bcdVars, wsVars>>

\* a read returned nothing, buf ends with ETX SF and GAP has passed: break
ReadGap ==
    /\ ~rret.done
    /\ EndsWith(rbuf, << ETX, SF >>)
    /\ rret' = [done |-> TRUE, bytes |-> rbuf]
    /\ UNCHANGED <<rev, transportVars, masterVars, frameVars,
                   rframe, rline, rbuf, recho, rgot, rchunks, bcdVars, wsVars>>

\* the while condition fails: timeout seconds have passed
ReadTimeout ==
    /\ ~rret.done
    /\ rret' = [done |-> TRUE, bytes |-> rbuf]
    /\ UNCHANGED <<rev, transportVars, masterVars, frameVars,
                   rframe, rline, rbuf, recho, rgot, rchunks, bcdVars, wsVars>>

-----------------------------------------------------------------------------
(* Specifications *)

(* Packed BCD: the encoders against the decoders *)

\* the widths of a packed BCD field: 3 bytes for a price, 4 for a volume or
\* an amount, and the shorter ones
BcdLens == 1 .. 4

\* values handed to an encoder: every two-digit value and values at the
\* edges of the longer fields
BcdValues == (0 .. 99) \cup {100, 4500, 9999, 10000, 123456, 999999,
                             1000000, 12345678, 99999999}

\* _int_to_bcd with _bcd_to_int are module functions of both revisions;
\* _float_to_bcd with _bcd_to_float are methods of HEAD
BcdCodecs(r) == IF r = "HEAD" THEN {"int", "float"} ELSE {"int"}

NoBcdInput == [codec |-> "none", n |-> 0, k |-> 0]
NoBcdOutput == [step |-> "idle", bytes |-> << >>, val |-> 0]

BcdIdle == bin = NoBcdInput /\ bout = NoBcdOutput

\* the decoder _handle_dc applies to the fields of DC2 and DC3:
\* self._bcd_to_float on HEAD, _bcd_to_int on THEIRS
FieldDecoder(r) == IF r = "HEAD" THEN "float" ELSE "int"

\* fields as a pump sends them: a price, a volume, and fields with a nibble
\* above 9
BcdFields == { << 18, 52, 86 >>, << 0, 0, 5, 0 >>, << 153, 153, 153, 153 >>,
               << 26, 0, 0 >>, << 0, 240, 0, 0 >>, << 255, 255, 255 >>,
               << 0, 0, 0, 10 >> }

\* either a value is handed to an encoder (k > 0), or a field has been
\* received and waits for the decoder of _handle_dc (k = 0)
BcdInit ==
    \/ /\ bin \in {[codec |-> c, n |-> n, k |-> k] :
                       c \in BcdCodecs(rev), n \in BcdValues, k \in BcdLens}
       /\ bin.n < 100 ^ bin.k
       /\ bout = NoBcdOutput
    \/ /\ bin = [codec |-> FieldDecoder(rev), n |-> 0, k |-> 0]
       /\ bout \in {[step |-> "received", bytes |-> b, val |-> 0] : b \in BcdFields}

\* the encoder of the pair, applied to the value
BcdEncode ==
    /\ bout.step = "idle"
    /\ bin.codec # "none"
    /\ bout' = [step |-> "encoded",
                bytes |-> IF bin.codec = "int" THEN int_to_bcd(bin.n, bin.k)
                                               ELSE float_to_bcd(bin.n, bin.k),
                val |-> 0]
    /\ UNCHANGED <<rev, transportVars, masterVars, frameVars, readVars, bin, wsVars>>

\* the decoder of the pair, applied to the encoder's bytes
BcdDecode ==
    /\ bout.step \in {"encoded", "received"}
    /\ bout' = [bout EXCEPT !.step = "decoded",
                            !.val = IF bin.codec = "int" THEN bcd_to_int(bout.bytes)
                                                         ELSE bcd_to_float(bout.bytes)]
    /\ UNCHANGED <<rev, transportVars, masterVars, frameVars, readVars, bin, wsVars>>

(* The websocket subscribers: ws_endpoint and _forward_events of api.py *)

NSubs == 2
MaxEvents == 3

Subs == 1 .. NSubs

\* a client that is not connected
NoSub == [st |-> "off", ev |-> 0, got |-> << >>, since |-> 0]

WsIdle == ws = [n |-> 0, sub |-> [s \in Subs |-> NoSub]]

\* the subscribers whose ws_endpoint is in its receive loop
Connected == { s \in Subs : ws.sub[s].st \in {"get", "send"} }

\* await self.events.put(ev) of _handle_dc: the events are numbered in the
\* order they are put on the queue
PutEvent ==
    /\ ws.n < MaxEvents
    /\ events' = Append(events, ws.n + 1)
    /\ ws' = [ws EXCEPT !.n = @ + 1]
    /\ UNCHANGED <<rev, transportVars, pc, phase, adr, raw, pending, store, grade_table,
                   delivered, decoded, last, nTx, params, frameVars, readVars, bcdVars>>

\* ws_endpoint: ws.accept(), then create_task(_forward_events(ws)); the
\* task runs up to "await master.events.get()"
Connect(s) ==
    /\ ws.sub[s].st = "off"
    /\ ws' = [ws EXCEPT !.sub[s] = [st |-> "get", ev |-> 0, got |-> << >>, since |-> ws.n]]
    /\ UNCHANGED <<rev, transportVars, masterVars, frameVars, readVars, bcdVars>>

\* ev = await master.events.get(): the task of s takes the head of the one
\* queue all tasks share
Get(s) ==
    /\ ws.sub[s].st = "get"
    /\ events # << >>
    /\ events' = Tail(events)
    /\ ws' = [ws EXCEPT !.sub[s].st = "send", !.sub[s].ev = Head(events)]
    /\ UNCHANGED <<rev, transportVars, pc, phase, adr, raw, pending, store, grade_table,
                   delivered, decoded, last, nTx, params, frameVars, readVars, bcdVars>>

\* await ws.send_json(ev) has completed: the client of s has the event
Send(s) ==
    /\ ws.sub[s].st = "send"
    /\ ws' = [ws EXCEPT !.sub[s].st = "get", !.sub[s].ev = 0,
                        !.sub[s].got = Append(@, ws.sub[s].ev)]
    /\ UNCHANGED <<rev, transportVars, masterVars, frameVars, readVars, bcdVars>>

\* the client of s goes away: receive_text raises WebSocketDisconnect and
\* ws_endpoint cancels the task, or send_json raises and the task ends; an
\* event the task had taken from the queue is not put back
Disconnect(s) ==
    /\ ws.sub[s].st \in {"get", "send"}
    /\ ws' = [ws EXCEPT !.sub[s].st = "gone"]
    /\ UNCHANGED <<rev, transportVars, masterVars, frameVars, readVars, bcdVars>>

-----------------------------------------------------------------------------
-----------------------------------------------------------------------------
MasterIdle ==
    /\ pc = "off"
    /\ phase = "initial"
    /\ adr = First
    /\ raw = << >>
    /\ pending = << >>
    /\ store = << >>
    /\ grade_table = << >>
    /\ events = << >>
    /\ delivered = << >>
    /\ decoded = << >>
    /\ last = NoLast
    /\ nTx = 0
    /\ params = [a \in Addrs |-> << >>]

\* PumpMaster: the poll loop, the dispatch and the event forwarder
Init == rev \in Revs /\ TransportInit /\ MasterInit /\ FrameIdle /\ ReadIdle /\ BcdIdle /\ WsIdle

Next ==
    \/ StartupPrice
    \/ StartupParams
    \/ PollStatus
    \/ PollIdentity
    \/ ParseReply
    \/ Dispatch
    \/ Forward
    \/ \E a \in QueryAddrs : GetAllNozzles(a)

Spec == Init /\ [][Next]_vars

\* DartDriver: transact calls running on the worker threads
InitT == rev \in Revs /\ TransportInit /\ MasterIdle /\ FrameIdle /\ ReadIdle /\ BcdIdle /\ WsIdle

NextT ==
    \/ \E w \in Workers, job \in Jobs(rev) : Call(w, job)
    \/ \E w \in Workers : BuildHdr(w)
    \/ \E w \in Workers : LoadSeq(w)
    \/ \E w \in Workers : StoreSeq(w)
    \/ \E w \in Workers : Acquire(w)
    \/ \E w \in Workers : Write(w)
    \/ \E w \in Workers : Return(w)

SpecT == InitT /\ [][NextT]_vars

\* the event queue of PumpMaster and the websocket clients
InitW == rev \in Revs /\ TransportInit /\ MasterIdle /\ FrameIdle /\ ReadIdle /\ BcdIdle /\ WsIdle

NextW ==
    \/ PutEvent
    \/ \E s \in Subs : Connect(s)
    \/ \E s \in Subs : Get(s)
    \/ \E s \in Subs : Send(s)
    \/ \E s \in Subs : Disconnect(s)

SpecW == InitW /\ [][NextW]_vars

\* the framing functions on their own
InitF == rev \in Revs /\ TransportInit /\ MasterIdle /\ FrameInit /\ ReadIdle /\ BcdIdle /\ WsIdle

NextF == RoundTrip

SpecF == InitF /\ [][NextF]_vars

\* the read loop of one transact call
InitR == rev \in Revs /\ TransportInit /\ MasterIdle /\ FrameIdle /\ ReadInit /\ BcdIdle /\ WsIdle

NextR ==
    \/ \E n \in 1 .. Len(rline) : ReadChunk(n)
    \/ ReadGap
    \/ ReadTimeout

SpecR == InitR /\ [][NextR]_vars

\* the packed BCD encoders and decoders
InitB == rev \in Revs /\ TransportInit /\ MasterIdle /\ FrameIdle /\ ReadIdle /\ BcdInit /\ WsIdle

NextB == BcdEncode \/ BcdDecode

SpecB == InitB /\ [][NextB]_vars


-----------------------------------------------------------------------------
(* Claims *)

\* the workers that hold the serial line: from the reset of the input
\* buffer and the frame write to the return
OnTheLine == {w \in Workers : wpc[w] \in {"write", "read"}}

\* C1: for every interleaving of concurrent transact calls at most one call
\* is between the start of its frame write and its return, and that call
\* holds the lock: no other call drains the input buffer or writes a frame
\* while it waits for its reply.
C1_OneCallOnTheLine ==
    /\ Cardinality(OnTheLine) <= 1
    /\ \A w \in OnTheLine : lock = w

\* C1 witness: one call waits for its reply after writing its frame while
\* another call has built its frame and waits for the lock
C1_Witness ==
    \E w1, w2 \in Workers :
        /\ w1 # w2
        /\ wpc[w1] = "read"
        /\ wpc[w2] = "lock"
        /\ wire # << >>

\* the sequence byte of a frame (frame[3])
SeqByte(fr) == fr[4]

\* C2: in the order in which frames are written to the serial line, any two
\* consecutive frames carry different sequence bits.
C2_SeqAlternatesOnWire ==
    \A i \in 1 .. Len(wire) - 1 : SeqByte(wire[i]) # SeqByte(wire[i + 1])

\* C3: the frame _build_frame makes of an address, a sequence bit and a list
\* of blocks is parsed into exactly the transactions of concat(blocks), with
\* that address.
C3_FrameRoundTrip ==
    fout.done => fout.txs = Transactions(fin.addr, Concat(fin.blocks))

\* the events put on the queue so far, oldest first: those the subscriber
\* took, then those still waiting
Enqueued == delivered \o events

\* the transaction an event reports: 1 status, 2 volume and amount, 3 nozzle
EventKind(e) ==
    IF "status" \in DOMAIN e THEN 1
    ELSE IF "volume_l" \in DOMAIN e THEN 2
    ELSE 3

EventsOf(a) == SelectSeq(Enqueued, LAMBDA e : e.addr = a)
DecodedOf(a) == SelectSeq(decoded, LAMBDA t : t.addr = a /\ t.dc \in {1, 2, 3})
SeenAddrs == {decoded[i].addr : i \in DOMAIN decoded}
                \cup {Enqueued[i].addr : i \in DOMAIN Enqueued}

\* C4: the events enqueued for one address are exactly one per decoded DC1,
\* DC2 or DC3 transaction of that address, in the order of decoding, and the
\* subscriber takes them in that order.
C4_OneEventPerTransactionInOrder ==
    \A a \in SeenAddrs :
        /\ Len(EventsOf(a)) = Len(DecodedOf(a))
        /\ \A i \in 1 .. Len(EventsOf(a)) :
               EventKind(EventsOf(a)[i]) = DecodedOf(a)[i].dc

\* C5: whatever the pumps reply, a DC1 with a status code outside 0..7
\* included, the poll loop is never stopped.
C5_PollLoopNeverStops == pc # "dead"

\* the last _handle_dc call handled a transaction dc with a payload of n bytes
LastWas(dc, n) ==
    /\ last # NoLast
    /\ last[1].t.dc = dc
    /\ Len(last[1].t.pl) = n

\* C6: after a DC1 with a status code c in 0..7 from pump a both left.status
\* and right.status of the pump are c, and exactly one event with addr a and
\* status c is enqueued.
C6_StatusOnBothSides ==
    (LastWas(1, 1) /\ last[1].t.pl[1] \in PumpStatusValues) =>
        LET a == last[1].t.addr
            c == last[1].t.pl[1]
        IN  /\ store[a].left.status = c
            /\ store[a].right.status = c
            /\ Len(last[1].evs) = 1
            /\ last[1].evs[1].addr = a
            /\ last[1].evs[1].status = c

\* C7: a DC1 with a status code outside 0..7 does not raise, the stored
\* status is that code, an event with that code is enqueued and the poll
\* loop goes on.
C7_UnknownStatusKept ==
    (LastWas(1, 1) /\ last[1].t.pl[1] \notin PumpStatusValues) =>
        LET a == last[1].t.addr
            c == last[1].t.pl[1]
        IN  /\ ~last[1].raised
            /\ pc # "dead"
            /\ store[a].left.status = c
            /\ store[a].right.status = c
            /\ Len(last[1].evs) = 1
            /\ last[1].evs[1].status = c

Sides == {"left", "right"}

\* the last _handle_dc call moved side s of its pump into AUTHORIZED
IntoAuthorized(s) ==
    /\ last # NoLast
    /\ last[1].pre[s].status # AUTHORIZED
    /\ store[last[1].t.addr][s].status = AUTHORIZED

\* C8: a DC1 that moves a side from another status into AUTHORIZED leaves
\* volume_l and amount_cur of that side 0 and keeps its presets; a DC1
\* AUTHORIZED for a side that is AUTHORIZED already changes none of them.
C8_AuthorizedClearsTotals ==
    (LastWas(1, 1) /\ last[1].t.pl[1] = AUTHORIZED) =>
        \A s \in Sides :
            LET before == last[1].pre[s]
                after  == store[last[1].t.addr][s]
            IN  /\ IntoAuthorized(s) =>
                       /\ after.volume_l = 0
                       /\ after.amount_cur = 0
                       /\ after.preset_vol = before.preset_vol
                       /\ after.preset_amt = before.preset_amt
                /\ before.status = AUTHORIZED =>
                       /\ after.volume_l = before.volume_l
                       /\ after.amount_cur = before.amount_cur

\* C9: a _handle_dc call that is not a transition of the side into
\* AUTHORIZED never lowers the stored volume_l or amount_cur of the side.
C9_TotalsNeverDecrease ==
    last # NoLast =>
        \A s \in Sides :
            ~IntoAuthorized(s) =>
                /\ store[last[1].t.addr][s].volume_l >= last[1].pre[s].volume_l
                /\ store[last[1].t.addr][s].amount_cur >= last[1].pre[s].amount_cur

\* the DC3 transactions of pump a decoded before the last transaction
NozzleEvents(a) ==
    {i \in 1 .. Len(decoded) - 1 :
        decoded[i].addr = a /\ decoded[i].dc = 3 /\ Len(decoded[i].pl) >= 4}

\* the side of the nozzle of the most recent DC3 of pump a; left without one
SideOfLastNozzle(a) ==
    IF NozzleEvents(a) = {} THEN "left"
    ELSE LET i == CHOOSE k \in NozzleEvents(a) : \A j \in NozzleEvents(a) : j <= k
         IN  SideByNoz(decoded[i].pl[4] % 16)

\* C10: a DC2 with the 8-byte payload sets volume_l and amount_cur of the
\* side of the most recent DC3 nozzle of the pump (left without one) to the
\* decoded BCD values, leaves the other side as it was and enqueues one event
\* with addr, side, volume_l and amount_cur.
C10_DispensedGoesToNozzleSide ==
    LastWas(2, 8) =>
        LET a   == last[1].t.addr
            s   == SideOfLastNozzle(a)
            o   == CHOOSE x \in Sides : x # s
            vol == bcd_to_int(Slice(last[1].t.pl, 0, 4))
            amt == bcd_to_int(Slice(last[1].t.pl, 4, 8))
        IN  /\ store[a][s].volume_l = vol
            /\ store[a][s].amount_cur = amt
            /\ store[a][o] = last[1].pre[o]
            /\ last[1].evs = << [addr |-> a, side |-> s,
                                 volume_l |-> vol, amount_cur |-> amt] >>

\* the side of the default side map: odd nozzle ids left, even ids right
DefaultSide(n) == IF n % 2 = 1 THEN "left" ELSE "right"

\* C11: for a DC3 that reports a nozzle id in 1..15 the one event enqueued
\* carries the side left for an odd id and right for an even id, and the
\* other side of the pump is not touched.
C11_SideFollowsNozzleParity ==
    (LastWas(3, 4) /\ last[1].t.pl[4] % 16 \in 1 .. 15) =>
        LET a == last[1].t.addr
            s == DefaultSide(last[1].t.pl[4] % 16)
            o == CHOOSE x \in Sides : x # s
        IN  /\ Len(last[1].evs) = 1
            /\ last[1].evs[1].side = s
            /\ store[a][o] = last[1].pre[o]

\* the grade table a DC7 payload describes: nozzle id i has the grade of
\* payload byte 30 + (i - 1), and an id whose byte is 0 has none
GradesOf(pl) == [i \in {k \in 1 .. 15 : pl[30 + k] # 0} |-> pl[30 + i]]

\* C12: after a DC7 with at least 46 payload bytes from pump a the grade
\* table of a maps exactly the nozzle ids 1..15 whose GRADE byte is not zero,
\* each to its byte.
C12_GradeTableSkipsZero ==
    (last # NoLast /\ last[1].t.dc = 7 /\ Len(last[1].t.pl) >= 46) =>
        /\ last[1].t.addr \in DOMAIN grade_table
        /\ DOMAIN grade_table[last[1].t.addr] = DOMAIN GradesOf(last[1].t.pl)
        /\ \A i \in DOMAIN GradesOf(last[1].t.pl) :
               grade_table[last[1].t.addr][i] = GradesOf(last[1].t.pl)[i]

\* the transactions handled so far followed by those of the current read
\* that wait for their _handle_dc call
Dispatched == decoded \o pending

\* C13: when one read returns two concatenated valid frames, the
\* transactions of both are dispatched in wire order: for a DC3 frame
\* followed by a DC1 frame the nozzle transaction and then the status
\* transaction, and once both are handled the nozzle event and then the
\* status event are the last two events enqueued.
C13_ConcatenatedFramesAllDispatched ==
    \A p \in FramePairs :
        (raw = TwoFrames(p) /\ pc \in {"dispatch", "poll"}) =>
            /\ EndsWith(Dispatched,
                        Transactions(80, p[1]) \o Transactions(80, p[2]))
            /\ pending = << >> =>
                   /\ Len(Enqueued) >= 2
                   /\ EventKind(Enqueued[Len(Enqueued) - 1]) = 3
                   /\ EventKind(Enqueued[Len(Enqueued)]) = 1

\* buf is one frame by its layout: STX, LEN + 9 bytes, ETX and SF at the end
IsFrame(buf) ==
    /\ Len(buf) >= 9
    /\ buf[1] = STX
    /\ Len(buf) = buf[5] + 9
    /\ buf[Len(buf) - 1] = ETX
    /\ buf[Len(buf)] = SF

\* the CRC field of frame fr is the CRC of ADR .. last body byte
CrcMatches(fr) ==
    FromLittle2(Slice(fr, Len(fr) - 4, Len(fr) - 2)) = crc16(Slice(fr, 1, Len(fr) - 4))

\* C14: a reply frame whose CRC field does not match is dropped by _parse:
\* none of its bytes reaches _handle_dc, the only place where an event is
\* enqueued or the store or the grade table is written, and the poll loop
\* goes on to its next poll.
C14_BadCrcDropped ==
    (IsFrame(raw) /\ ~CrcMatches(raw) /\ pc # "parse") =>
        /\ pending = << >>
        /\ pc = "poll"

\* t begins with s
StartsWith(t, s) == Len(t) >= Len(s) /\ SubSeq(t, 1, Len(s)) = s

\* C15: when the bytes the reads returned are the sent frame followed by a
\* reply, transact returns exactly the reply, however the bytes were cut
\* into chunks; when they do not begin with the sent frame, transact returns
\* them all.
C15_EchoRemovedOnce ==
    rret.done =>
        IF StartsWith(rgot, rframe)
            THEN rret.bytes = SubSeq(rgot, Len(rframe) + 1, Len(rgot))
            ELSE rret.bytes = rgot

\* C15 witness: the echo and a reply arrived in three or more chunks, the
\* first of them shorter than the echo, and transact returned the reply
C15_Witness ==
    /\ rret.done
    /\ rchunks >= 3
    /\ rgot = rframe \o PumpFrame(80, DC1(4))
    /\ rret.bytes = PumpFrame(80, DC1(4))

\* the body of frame fr: LEN bytes after the header
BodyOf(fr) == Slice(fr, 5, 5 + fr[5])

\* C16: when a poll of a pump ends without any answer, the one frame it put
\* on the line is CD1 RETURN_STATUS (body 01 01 00) to a configured address,
\* so that frame is the last one written, and nothing waits to be handled.
C16_SilentPollSendsOneFrame ==
    (pc = "poll" /\ nTx > 0 /\ raw = << >>) =>
        /\ wire[Len(wire)][2] \in Addrs
        /\ BodyOf(wire[Len(wire)]) = << 1, 1, 0 >>
        /\ pending = << >>

\* the body the frame of authorize(addr, vol, amt) is to have: 03 04 and
\* vol * 1000 as a 4-byte big-endian integer when vol is given, 04 04 and
\* amt * 100 likewise when amt is given, then 01 01 06
AuthorizeBody(vol, amt) ==
    (IF vol = None THEN << >> ELSE << 3, 4 >> \o ToBig4(vol[1]))
        \o (IF amt = None THEN << >> ELSE << 4, 4 >> \o ToBig4(amt[1]))
        \o << 1, 1, 6 >>

\* C17: the frame a transact call for authorize(addr, vol, amt) writes goes
\* to addr and has the preset volume block, the preset amount block and
\* 01 01 06 as its body, in this order; for authorize(0x50, 20.0, none) the
\* body is 03 04 00 00 4E 20 01 01 06.
C17_AuthorizeFrameBody ==
    /\ AuthorizeBody(Some(20000), None) = << 3, 4, 0, 0, 78, 32, 1, 1, 6 >>
    /\ \A w \in Workers : \A x \in AuthArgs :
           (wpc[w] = "read" /\ wjob[w] = authorize(rev, 80, x[1], x[2])) =>
               /\ wire[Len(wire)][2] = 80
               /\ BodyOf(wire[Len(wire)]) = AuthorizeBody(x[1], x[2])

\* frame fr is step k of the start-up of address a: 1 a CD5 price update,
\* 2 CD1 RESET, 3 CD1 RETURN_PUMP_PARAMS
IsStartupStep(fr, a, k) ==
    /\ fr[2] = a
    /\ IF k = 1 THEN Len(BodyOf(fr)) >= 2 /\ BodyOf(fr)[1] = 5
       ELSE IF k = 2 THEN BodyOf(fr) = << 1, 1, 5 >>
       ELSE BodyOf(fr) = << 1, 1, 2 >>

\* C18: the first frames on the line are, for each configured address in
\* turn, a CD5 price update, a CD1 RESET and a CD1 RETURN_PUMP_PARAMS; no
\* other frame, a RETURN_STATUS poll included, comes before the start-up of
\* the last address is complete.
C18_StartupSequence ==
    \A i \in 1 .. Len(wire) :
        i <= 3 * Cardinality(Addrs) =>
            IsStartupStep(wire[i], First + ((i - 1) \div 3), ((i - 1) % 3) + 1)

\* the bound of the event queue; it stands for the recommended 1024
QueueBound == 2

\* C19: the event queue never holds more events than its bound.
C19_QueueBounded == Len(events) <= QueueBound

\* C20: the poll loop never waits for the subscriber: whatever the queue
\* holds, a transaction that waits for its _handle_dc call can be handled
\* and its event enqueued, so the loop reaches its next poll.
C20_PutNeverBlocks == pc = "dispatch" => ENABLED Dispatch

\* C20 witness: the subscriber has taken nothing, two or more events wait in
\* the queue, and the poll loop is at its next poll
C20_Witness ==
    /\ delivered = << >>
    /\ Len(events) >= 2
    /\ pc = "poll"
    /\ nTx < MaxTx

\* the addresses a DC transaction was decoded from
ObservedAddrs == {decoded[i].addr : i \in DOMAIN decoded}

\* C21: the state store holds an entry only for an address a DC transaction
\* was decoded from; a read of the nozzles of an address never observed
\* leaves the key set of the store as it was.
C21_StoreHoldsObservedOnly == DOMAIN store \subseteq ObservedAddrs

\* the frame _build_frame made of the input of the round trip
BuiltFrame == build_frame(fin.addr, fin.seq, fin.blocks)

\* C22: the CRC computed over data followed by the CRC of data, low byte
\* first, is 0: for every frame built, the CRC over ADR .. CRC-HI is 0x0000,
\* with crc16 of the driver and with crc16_mkr of the parser.
C22_CrcOverDataAndCrcIsZero ==
    fout.done =>
        /\ crc16(Slice(BuiltFrame, 1, Len(BuiltFrame) - 2)) = 0
        /\ crc16_mkr(Slice(BuiltFrame, 1, Len(BuiltFrame) - 2)) = 0

\* C23: for every width k in 1..4 and every n with 0 <= n < 100^k, decoding
\* the k bytes the encoder made of n gives n back.
C23_BcdRoundTrip == (bout.step = "decoded" /\ bin.k > 0) => bout.val = bin.n

\* the byte of a frame at offset 2
CtrlByte(fr) == fr[3]

\* C24: two frames built one after the other by the same driver have CTRL
\* bytes, at offset 2 of the frame, that differ by exactly 0x80.
C24_CtrlBytesDifferBy0x80 ==
    \A i \in 1 .. Len(wire) - 1 :
        \/ CtrlByte(wire[i + 1]) - CtrlByte(wire[i]) = SEQ_TOGGLE
        \/ CtrlByte(wire[i]) - CtrlByte(wire[i + 1]) = SEQ_TOGGLE

\* the two frames of the bus log: RETURN_STATUS, then RETURN_PUMP_IDENTITY,
\* to 0x50 from a driver just constructed
LoggedStatusFrame == << 2, 80, 240, 0, 3, 1, 1, 0, 246, 228, 3, 250 >>
LoggedIdentityFrame == << 2, 80, 240, 128, 3, 1, 1, 3, 69, 246, 3, 250 >>

C26_ReplyWithoutStxRejected ==
    (raw # << >> /\ raw[1] # STX /\ pc # "parse") =>
        /\ pending = << >>
        /\ pc = "poll"

\* buf begins with STX, is at least 8 bytes long and carries the CRC of its
\* bytes ADR .. last body byte, but its LEN byte is not the number of bytes
\* between LEN and the CRC, or its second-to-last byte is not ETX
ValidCrcBadShape(buf) ==
    /\ Len(buf) >= 8
    /\ buf[1] = STX
    /\ CrcMatches(buf)
    /\ buf[5] # Len(buf) - 9 \/ buf[Len(buf) - 1] # ETX

\* C27: a frame is decoded only if it is at least 8 bytes long, begins with
\* STX, ends with ETX SF, has a LEN byte equal to the number of body bytes
\* and a matching CRC: a frame with a matching CRC and a wrong LEN byte, or
\* without ETX before SF, is dropped, nothing of it reaches _handle_dc.
C27_MalformedFrameDropped ==
    (raw # << >> /\ ValidCrcBadShape(raw) /\ pc # "parse") =>
        /\ pending = << >>
        /\ pc = "poll"

\* the body of a CD5 price update of 45.00 for four nozzles: 05 0C and four
\* times the packed BCD 00 45 00
PriceBody == << 5, 12 >> \o Concat([i \in 1 .. 4 |-> << 0, 69, 0 >>])

\* C28: the price broadcast of the start-up, for the default price 45.00 and
\* four nozzles, has the body 05 0C followed by four copies of 00 45 00, the
\* 3-byte packed BCD of 4500 with the more significant digit of each byte in
\* the high nibble.
C28_StartupPriceBody ==
    \A i \in 1 .. Len(wire) :
        (BodyOf(wire[i]) # << >> /\ BodyOf(wire[i])[1] = 5) =>
            BodyOf(wire[i]) = PriceBody

\* _startup has returned: the poll loop is in its while loop
StartupDone == pc \notin {"off", "startup", "params"}

\* the payload of the DC7 transaction the pumps of the model send
ParamsPayload == SubSeq(DC7, 3, Len(DC7))

\* C29: when the pump at a answered the start-up query with a DC7 frame, then
\* after the start-up the grade table of a holds the grades of that DC7, and
\* a DC3 event of a carries the grade the table has for its nozzle id.
C29_StartupFillsGradeTable ==
    \A a \in Addrs :
        (StartupDone /\ params[a] = PumpFrame(a, DC7)) =>
            /\ \A i \in DOMAIN GradesOf(ParamsPayload) :
                   GradeOf(grade_table, a, i) = Some(GradesOf(ParamsPayload)[i])
            /\ (LastWas(3, 4) /\ last[1].t.addr = a /\ last[1].evs # << >>) =>
                   /\ "grade" \in DOMAIN last[1].evs[1]
                   /\ last[1].evs[1].grade
                          = GradeOf(grade_table, a, last[1].t.pl[4] % 16)

FILLING_COMPLETED == 5
MAX_REACHED == 6

\* C30: while the status of a side is FILLING_COMPLETED or MAX_REACHED its
\* volume_l and amount_cur keep the values they had when it got there: no
\* _handle_dc call changes them, whatever DC2 it handles, unless the call
\* moves the side into AUTHORIZED.
C30_TotalsFrozenAfterCompletion ==
    last # NoLast =>
        \A s \in Sides :
            (last[1].pre[s].status \in {FILLING_COMPLETED, MAX_REACHED}
                    /\ ~IntoAuthorized(s)) =>
                /\ store[last[1].t.addr][s].volume_l = last[1].pre[s].volume_l
                /\ store[last[1].t.addr][s].amount_cur = last[1].pre[s].amount_cur

OtherSide(s) == IF s = "left" THEN "right" ELSE "left"

\* C31: after a DC3 from pump a with NOZIO byte b the side of nozzle b & 0x0F
\* has nozzle_taken = (b & 0x10 != 0), the other side of the pump is as it
\* was, and the one event enqueued carries addr a, that side and the same
\* nozzle_taken.
C31_NozzleEventUpdatesItsSide ==
    LastWas(3, 4) =>
        LET a     == last[1].t.addr
            b     == last[1].t.pl[4]
            s     == SideByNoz(b % 16)
            taken == (b \div 16) % 2 = 1
        IN  /\ store[a][s].nozzle_taken = taken
            /\ store[a][OtherSide(s)] = last[1].pre[OtherSide(s)]
            /\ Len(last[1].evs) = 1
            /\ last[1].evs[1].addr = a
            /\ last[1].evs[1].side = s
            /\ last[1].evs[1].nozzle_taken = taken

KnownDc == {1, 2, 3, 7}

\* C32: a transaction with a DC code that _handle_dc does not know is dropped
\* without raising, enqueues nothing and leaves the PumpState as it was; the
\* complete transactions of its body, those after it included, are all
\* dispatched in order, and an incomplete block at the end is ignored.
C32_UnknownDcDropped ==
    /\ (last # NoLast /\ last[1].t.dc \notin KnownDc) =>
           /\ ~last[1].raised
           /\ last[1].evs = << >>
           /\ store[last[1].t.addr] = last[1].pre
    /\ \A b \in UnknownBodies :
           (raw = PumpFrame(80, b) /\ pc \in {"dispatch", "poll", "dead"}) =>
               EndsWith(Dispatched, Transactions(80, b))

\* a transaction of a known DC whose payload is shorter than its layout
ShortPayload(t) ==
    \/ t.dc = 1 /\ Len(t.pl) = 0
    \/ t.dc = 2 /\ Len(t.pl) < 8
    \/ t.dc = 3 /\ Len(t.pl) < 4
    \/ t.dc = 7 /\ Len(t.pl) < 46

\* C33: a DC1 without payload, a DC2 with fewer than 8 bytes, a DC3 with
\* fewer than 4 or a DC7 with fewer than 46 is dropped: nothing is raised,
\* nothing is enqueued, the PumpState stays as it was, and the transactions
\* that follow it in the body are dispatched.
C33_ShortPayloadDropped ==
    /\ (last # NoLast /\ ShortPayload(last[1].t)) =>
           /\ ~last[1].raised
           /\ last[1].evs = << >>
           /\ store[last[1].t.addr] = last[1].pre
    /\ (raw = PumpFrame(80, ShortBody) /\ pc \in {"dispatch", "poll", "dead"}) =>
           EndsWith(Dispatched, Transactions(80, ShortBody))

\* the value of a field of valid digits: the sum over its bytes of
\* (hi * 10 + lo) * 100 ^ (position from the right)
RECURSIVE DigitsValue(_)
DigitsValue(b) ==
    IF b = << >> THEN 0
    ELSE ((b[Len(b)] \div 16) * 10 + (b[Len(b)] % 16))
            + 100 * DigitsValue(SubSeq(b, 1, Len(b) - 1))

HasBadNibble(b) == \E i \in 1 .. Len(b) : b[i] \div 16 > 9 \/ b[i] % 16 > 9

\* C36: the decoder of _handle_dc gives 0 for a packed BCD field in which a
\* nibble is above 9, and for a field of valid nibbles the sum over its bytes
\* of (hi * 10 + lo) * 100 ^ (position from the right).
C36_BadNibbleDecodesToZero ==
    (bout.step = "decoded" /\ bin.k = 0) =>
        bout.val = IF HasBadNibble(bout.bytes) THEN 0 ELSE DigitsValue(bout.bytes)

\* C37: every key of the store and of the grade table is an address of the
\* configured poll range: a reply frame with a valid CRC from another address
\* is not handed to _handle_dc, creates no PumpState and enqueues no event.
C37_StoreKeysInPollRange ==
    /\ DOMAIN store \subseteq Addrs
    /\ DOMAIN grade_table \subseteq Addrs
    /\ \A i \in 1 .. Len(Dispatched) : Dispatched[i].addr \in Addrs
    /\ \A i \in 1 .. Len(Enqueued) : Enqueued[i].addr \in Addrs

\* C34: every transact call of PumpMaster runs on a thread of the executor,
\* never on the thread of the event loop, so that the loop is free for host
\* commands and event forwarding while the call waits for its reply.
C34_TransactOffTheEventLoop ==
    \A i \in 1 .. Len(calls) : calls[i].thread = "executor"


\* C38: host commands issued one after the other for one pump are written
\* to the serial line in the order of their issue, whatever the worker
\* threads do: the i-th frame on the line carries the blocks of the i-th call
C38_WrittenInIssueOrder ==
    \A i \in 1 .. Len(wire) :
        /\ wire[i][2] = calls[i].job.addr
        /\ BodyOf(wire[i]) = Concat(calls[i].job.blocks)


-----------------------------------------------------------------------------
(* The serial port fails: the poll loop and the host calls of api.py *)

MaxHost == 1

\* the calls a host makes while the poll loop runs: POST /pumps/80/preset
\* with 20 litres, POST /pumps/80/command with "stop"
HostJobs(r) == { authorize(r, 80, Some(20000), None), cd1(0, 8) }

\* the port is closed or the adapter is gone: from now on
\* reset_input_buffer and write of transact raise
SerialFails ==
    /\ serial.open
    /\ serial' = [open |-> FALSE, frames |-> Len(wire)]
    /\ UNCHANGED <<rev, seq, lock, wire, wpc, wjob, wframe, wtmp, nCalls, calls,
                   masterVars, frameVars, readVars, bcdVars, wsVars>>

\* hw.transact on a port that has failed: _build_frame has run and toggled
\* the sequence byte, then the first use of self._ser inside the lock
\* raises; nothing is written and transact has no handler
TransactRaises(call, th) ==
    /\ ~serial.open
    /\ calls' = Append(calls, CallRec(call, th, "raised"))
    /\ seq' = BitXor(seq, SEQ_TOGGLE)
    /\ UNCHANGED <<lock, wire, wpc, wjob, wframe, wtmp, nCalls, serial>>

\* a poll whose transact raises: "except Exception" of _poll_one logs it
\* on HEAD and poll_loop goes on with the next address; on THEIRS nothing
\* catches it and the poll_loop task ends
PollRaises ==
    /\ pc \in {"poll", "identity"}
    /\ nTx < MaxTx
    /\ TransactRaises(cd1(adr - 80, IF pc = "poll" THEN 0 ELSE 3), "executor")
    /\ nTx' = nTx + 1
    /\ IF rev = "HEAD"
          THEN pc' = "poll" /\ Advance
          ELSE pc' = "dead" /\ UNCHANGED <<adr, phase>>
    /\ UNCHANGED <<rev, raw, pending, store, grade_table, events,
                   delivered, decoded, last, params, frameVars, readVars, bcdVars, wsVars>>

\* _startup of THEIRS on a port that has failed: the first driver call of
\* the step raises inside poll_loop, which ends
StartupRaises ==
    /\ rev = "THEIRS"
    /\ pc \in {"startup", "params"}
    /\ TransactRaises(IF pc = "startup"
                         THEN [addr |-> adr,
                               blocks |-> << << 5, 12 >>
                                   \o Concat([i \in 1 .. 4 |-> int_to_bcd(4500, 3)]) >>]
                         ELSE cd1(adr - 80, 6), "loop")
    /\ pc' = "dead"
    /\ UNCHANGED <<rev, phase, adr, raw, pending, store, grade_table, events,
                   delivered, decoded, last, nTx, params, frameVars, readVars, bcdVars, wsVars>>

\* the host calls answered so far
Answered == { i \in 1 .. Len(calls) : calls[i].resp = "ok" }

\* do_preset / do_command: master.authorize or master.command hands the
\* transact call to the executor and returns, and the handler answers
\* {"ok": True}.  The worker then runs transact: on an open port the frame
\* is written, on a failed port the exception stays in a future nobody reads
HostCall(job) ==
    /\ pc \notin {"parse", "dispatch"}
    /\ Cardinality(Answered) < MaxHost
    /\ calls' = Append(calls, CallRec(job, "executor", "ok"))
    /\ seq' = BitXor(seq, SEQ_TOGGLE)
    /\ wire' = IF serial.open
                  THEN Append(wire, build_frame(job.addr, seq, job.blocks))
                  ELSE wire
    /\ UNCHANGED <<rev, lock, wpc, wjob, wframe, wtmp, nCalls, serial,
                   masterVars, frameVars, readVars, bcdVars, wsVars>>

\* PumpMaster with a port that can fail and a host that calls the API
NextX ==
    \/ Next
    \/ SerialFails
    \/ PollRaises
    \/ StartupRaises
    \/ \E job \in HostJobs(rev) : HostCall(job)

SpecX == Init /\ [][NextX]_vars

\* no frame is written after the port has failed
NoFrameAfterFailure == ~serial.open => Len(wire) = serial.frames

\* once a transact call has raised, the poll loop has stopped
PollLoopStops ==
    (\E i \in 1 .. Len(calls) : calls[i].resp = "raised") => pc = "dead"

\* no host call made after a transact call has raised is answered with
\* success
HostToldOfFailure ==
    \A i \in 1 .. Len(calls) :
        calls[i].resp = "raised" =>
            \A j \in (i + 1) .. Len(calls) : calls[j].resp # "ok"

\* C35: when the serial port fails, the poll loop stops, no further frame
\* is written, and every later call of a host is answered with an error
\* instead of success
C35_SerialFatal ==
    /\ NoFrameAfterFailure
    /\ PollLoopStops
    /\ HostToldOfFailure


\* the events put on the queue since subscriber s connected
SinceConnect(s) == (ws.sub[s].since + 1) .. ws.n

\* event e is on its way to subscriber s or has reached it: it waits in the
\* queue, the task of s holds it, or the client of s has it
OnItsWayTo(s, e) ==
    \/ \E i \in 1 .. Len(events) : events[i] = e
    \/ ws.sub[s].st = "send" /\ ws.sub[s].ev = e
    \/ \E i \in 1 .. Len(ws.sub[s].got) : ws.sub[s].got[i] = e

\* C39: a connected subscriber gets every event put on the queue while it is
\* connected, once and in the order of the queue, also with a second
\* subscriber connected or disconnecting: no such event is lost to it, and
\* what it has received is in increasing order
C39_EverySubscriberGetsEveryEvent ==
    \A s \in Connected :
        /\ \A e \in SinceConnect(s) : OnItsWayTo(s, e)
        /\ \A i, j \in 1 .. Len(ws.sub[s].got) :
              i < j => ws.sub[s].got[i] < ws.sub[s].got[j]

=============================================================================
